---------------------------- MODULE Spec2Model ----------------------------
(***************************************************************************)
(* The heart-disease notebook (src/oel.ipynb, second cell, lines 113-310)  *)
(* as a state machine.  The notebook is a straight-line script over one    *)
(* global namespace: the variables below are that namespace, pc is the     *)
(* statement group about to run, err the exception that ended the run.     *)
(*                                                                         *)
(* Library calls (pandas, numpy, scikit-learn) are modelled by what the    *)
(* called routine does with the arguments the notebook passes.  Real       *)
(* numbers are kept exact: a mean is the pair <<sum, n>>, a variance the   *)
(* pair <<n*sumsq - sum^2, n^2>>, a standardised value the pair            *)
(* <<numerator, d>> standing for numerator / sqrt(d), an accuracy the pair *)
(* <<correct, n>>.  Classifiers are opaque: what a fitted estimator        *)
(* answers for a test row is drawn once, in Init, and never again.         *)
(***************************************************************************)
EXTENDS Integers, Sequences, FiniteSets, TLC

VARIABLES
    pc,               \* statement group about to run, "done" or "aborted"
    err,              \* "none" or the exception that aborted the run
    loaded,           \* what pd.read_csv returned (history of line 127)
    heart_data,       \* the DataFrame threaded through lines 127-149
    X, y,             \* features / target (lines 152-153)
    X_train, X_test, y_train, y_test,          \* line 156
    permutation,      \* RandomState(42).permutation(n) of line 156
    scaler, X_train_scaled, X_test_scaled,     \* lines 159-161
    prev_run,         \* the scaler outputs of the previous execution
    clf,              \* what each estimator answers once fitted (opaque)
    ran,              \* the train-and-evaluate blocks that have completed
    pred, acc, cm, cr,                         \* lines 238-257, per model
    auc,              \* lines 263-277, per model
    stdout,           \* the lines printed so far (lines 297-310)
    best_model_idx    \* line 307

loadVars  == <<loaded, heart_data>>
splitVars == <<X, y, X_train, X_test, y_train, y_test, permutation>>
scaleVars == <<scaler, X_train_scaled, X_test_scaled, prev_run>>
evalVars  == <<clf, ran, pred, acc, cm, cr, auc>>
outVars   == <<stdout, best_model_idx>>
vars == <<pc, err, loadVars, splitVars, scaleVars, evalVars, outVars>>

\* A name not bound yet.
None == <<"None">>

-----------------------------------------------------------------------------
(* Generic helpers.                                                        *)

Range(s) == {s[i] : i \in DOMAIN s}

\* Sum and filter split the sequence in halves, so that the evaluation
\* depth grows with the logarithm of the length.
RECURSIVE SumSeq(_)
SumSeq(s) ==
    IF s = <<>> THEN 0
    ELSE IF Len(s) = 1 THEN s[1]
    ELSE SumSeq(SubSeq(s, 1, Len(s) \div 2))
         + SumSeq(SubSeq(s, Len(s) \div 2 + 1, Len(s)))

\* The elements of s, in order, that are in the set keep.
RECURSIVE Filter(_, _)
Filter(s, keep) ==
    IF s = <<>> THEN <<>>
    ELSE IF Len(s) = 1 THEN (IF s[1] \in keep THEN s ELSE <<>>)
    ELSE Filter(SubSeq(s, 1, Len(s) \div 2), keep)
         \o Filter(SubSeq(s, Len(s) \div 2 + 1, Len(s)), keep)

\* F(x) with x evaluated once, before F is applied to it.
Eager(F(_), x) == CHOOSE r \in {F(v) : v \in {x}} : TRUE

\* The sequences over S of length lo..hi.
SeqsOf(S, lo, hi) == UNION {[1..n -> S] : n \in lo..hi}

-----------------------------------------------------------------------------
(* Cells, rows and frames.  A cell is a float <<"f", n>>, a text           *)
(* <<"s", t>> or the null marker.  A frame keeps its column labels in      *)
(* order and its rows in order, each row with its index label.            *)

F(n) == <<"f", n>>
S(t) == <<"s", t>>
NaN  == <<"nan", 0>>

IsNull(c)  == c[1] = "nan"
IsFloat(c) == c[1] = "f"
IsText(c)  == c[1] = "s"

\* names, lines 126: the fixed schema handed to read_csv.
names == <<"age", "sex", "cp", "trestbps", "chol", "fbs", "restecg",
           "thalach", "exang", "oldpeak", "slope", "ca", "thal", "num">>

Frame(columns, rows) == [columns |-> columns, rows |-> rows]

\* A frame as read_csv builds it from a list of records: RangeIndex 0..n-1.
ReadCsv(records) ==
    Frame(names, [i \in DOMAIN records |-> [idx |-> i - 1, v |-> records[i]]])

\* The texts float() accepts in this model, with their values.
FloatText == ("0.0" :> 0) @@ ("1.0" :> 1) @@ ("2.0" :> 2) @@ ("3.0" :> 3)
             @@ ("6.0" :> 6) @@ ("7.0" :> 7)

\* float(c) succeeds: a float, a null (nan), or a text float() can parse.
Floatable(c) == IsFloat(c) \/ IsNull(c) \/ (IsText(c) /\ c[2] \in DOMAIN FloatText)

\* float(c) for a non-null floatable cell.
ToFloat(c) == IF IsText(c) THEN FloatText[c[2]] ELSE c[2]

-----------------------------------------------------------------------------
(* Cleaner, lines 131-132.                                                 *)

\* The missing-value sentinel of line 131.
Sentinel == S("?")

\* A replace that matches nothing (a wrong marker text).
ReplaceNothing(df) == df

\* DataFrame.replace('?', np.nan): every cell equal to '?' becomes null.
Replace(df) ==
    Frame(df.columns,
          [i \in DOMAIN df.rows |->
              [df.rows[i] EXCEPT !.v =
                  [c \in DOMAIN df.rows[i].v |->
                      IF df.rows[i].v[c] = Sentinel THEN NaN ELSE df.rows[i].v[c]]]])

\* DataFrame.dropna(): the rows with no null in any column, order kept.
RowHasNull(r) == \E c \in DOMAIN r.v : IsNull(r.v[c])
DropNa(df) ==
    Frame(df.columns, Filter(df.rows, {r \in Range(df.rows) : ~RowHasNull(r)}))

Clean ==
    /\ pc = "clean"
    /\ heart_data' = DropNa(Replace(heart_data))
    /\ pc' = "coerce"
    /\ UNCHANGED <<err, loaded, splitVars, scaleVars, evalVars, outVars>>

-----------------------------------------------------------------------------
(* Type coercion, lines 135-136.                                           *)

to_convert == <<"age", "trestbps", "chol", "thalach", "oldpeak">>

\* astype(float) raises ValueError on a text float() cannot parse.
CanCoerce(df) ==
    \A r \in Range(df.rows) : \A c \in Range(to_convert) : Floatable(r.v[c])

AsTypeFloat(df) ==
    Frame(df.columns,
          [i \in DOMAIN df.rows |->
              [df.rows[i] EXCEPT !.v =
                  [c \in DOMAIN df.rows[i].v |->
                      IF c \in Range(to_convert)
                      THEN F(ToFloat(df.rows[i].v[c])) ELSE df.rows[i].v[c]]]])

Coerce ==
    /\ pc = "coerce"
    /\ IF CanCoerce(heart_data)
       THEN /\ heart_data' = AsTypeFloat(heart_data)
            /\ pc' = "encode"
            /\ err' = err
       ELSE /\ heart_data' = heart_data
            /\ pc' = "aborted"
            /\ err' = "ValueError"
    /\ UNCHANGED <<loaded, splitVars, scaleVars, evalVars, outVars>>

-----------------------------------------------------------------------------
(* Encoder, lines 139-149.                                                 *)

\* The categorical source columns, in the order lines 140-144 expand them.
categorical == <<"cp", "restecg", "slope", "thal">>

\* The distinct values of column c (nulls are no level).
Levels(df, c) == {r.v[c] : r \in {q \in Range(df.rows) : ~IsNull(q.v[c])}}

\* The values in the order of their first appearance in the column.
FirstRow(df, c, x) == CHOOSE i \in DOMAIN df.rows :
    /\ df.rows[i].v[c] = x
    /\ \A j \in 1..(i - 1) : df.rows[j].v[c] # x
RECURSIVE ByFirstRow(_, _, _)
ByFirstRow(df, c, set) ==
    IF set = {} THEN <<>>
    ELSE LET m == CHOOSE x \in set :
                     \A z \in set : FirstRow(df, c, x) <= FirstRow(df, c, z)
         IN <<m>> \o ByFirstRow(df, c, set \ {m})
FirstSeen(df, c) == ByFirstRow(df, c, Levels(df, c))

\* The values in ascending order: get_dummies factorizes with sort=True.
RECURSIVE Ascending(_)
Ascending(set) ==
    IF set = {} THEN <<>>
    ELSE LET m == CHOOSE x \in set : \A z \in set : ToFloat(x) <= ToFloat(z)
         IN <<m>> \o Ascending(set \ {m})

\* A factorization that keeps the order of appearance (sort=False).
LevelOrderUnsorted(df, c) == FirstSeen(df, c)

\* The order in which get_dummies lays out the levels of a column.
LevelOrder(df, c) == Ascending(Levels(df, c))

\* drop_first=True: the first level gets no indicator column.
DropFirst(levels) == IF levels = <<>> THEN <<>> ELSE Tail(levels)

\* str(level) as it appears in an indicator column's label.
LevelText(x) == IF IsText(x) THEN x[2] ELSE ToString(x[2]) \o ".0"
DummyName(prefix, x) == prefix \o "_" \o LevelText(x)

\* pd.get_dummies(df[c], prefix=c, drop_first=True): the indicator labels, in
\* order, and per row the indicator cells.
DummyLevels(df, c) == DropFirst(LevelOrder(df, c))
DummyColumns(df, c) ==
    [k \in DOMAIN DummyLevels(df, c) |-> DummyName(c, DummyLevels(df, c)[k])]
DummyCells(df, c, r) ==
    [n \in Range(DummyColumns(df, c)) |->
        IF \E x \in Range(DummyLevels(df, c)) :
              n = DummyName(c, x) /\ r.v[c] = x
        THEN F(1) ELSE F(0)]

\* DataFrame.drop(labels, axis=1).
DropColumns(df, labels) ==
    Frame(Filter(df.columns, Range(df.columns) \ labels),
          [i \in DOMAIN df.rows |->
              [df.rows[i] EXCEPT !.v =
                  [c \in (DOMAIN df.rows[i].v) \ labels |-> df.rows[i].v[c]]]])

\* Lines 140-145: expand, concatenate on axis 1, drop the sources.
Expand(df) ==
    LET cols == df.columns \o DummyColumns(df, "cp") \o DummyColumns(df, "restecg")
                \o DummyColumns(df, "slope") \o DummyColumns(df, "thal")
        wide == Frame(cols,
                  [i \in DOMAIN df.rows |->
                      [df.rows[i] EXCEPT !.v =
                          df.rows[i].v @@ DummyCells(df, "cp", df.rows[i])
                          @@ DummyCells(df, "restecg", df.rows[i])
                          @@ DummyCells(df, "slope", df.rows[i])
                          @@ DummyCells(df, "thal", df.rows[i])]])
    IN Eager(LAMBDA w : DropColumns(w, Range(categorical)), wide)

\* Lines 148-149: target = 1 if num > 0 else 0, appended last; num dropped.
WithTarget(df) ==
    LET t == Frame(IF "target" \in Range(df.columns) THEN df.columns
                   ELSE Append(df.columns, "target"),
                   [i \in DOMAIN df.rows |->
                       [df.rows[i] EXCEPT !.v =
                           ("target" :> (IF df.rows[i].v["num"][2] > 0
                                         THEN F(1) ELSE F(0)))
                           @@ df.rows[i].v]])
    IN Eager(LAMBDA w : DropColumns(w, {"num"}), t)

\* Lines 140-149 on a frame that has the four source columns.  df['num']
\* (line 148) raises KeyError when num is no column; x > 0 raises TypeError
\* for a text.
EncodePresent(df) ==
    IF "num" \notin Range(df.columns)
    THEN [err |-> "KeyError", df |-> Expand(df)]
    ELSE IF \E r \in Range(df.rows) : ~IsFloat(r.v["num"])
    THEN [err |-> "TypeError", df |-> Expand(df)]
    ELSE [err |-> "none", df |-> Eager(WithTarget, Expand(df))]

\* An encoder that skips the expansion when the source columns are gone.
EncodeRunSkipping(df) ==
    IF \E c \in Range(categorical) : c \notin Range(df.columns)
    THEN [err |-> "none", df |-> df]
    ELSE EncodePresent(df)

\* The encoding step run on df: the exception it ends with, if any, and the
\* frame it leaves behind.  df['cp'] (line 140) raises KeyError for a label
\* that is no column, before anything is assigned.
EncodeRun(df) ==
    IF \E c \in Range(categorical) : c \notin Range(df.columns)
    THEN [err |-> "KeyError", df |-> df]
    ELSE EncodePresent(df)

\* The encoding step, left for position next when it raises nothing.
EncodeTo(next) ==
    /\ heart_data' = EncodeRun(heart_data).df
    /\ err' = EncodeRun(heart_data).err
    /\ pc' = IF EncodeRun(heart_data).err = "none" THEN next ELSE "aborted"
    /\ UNCHANGED <<loaded, splitVars, scaleVars, evalVars, outVars>>

Encode ==
    /\ pc = "encode"
    /\ EncodeTo("split")

\* The same statements executed once more on the frame they produced.
ReEncode ==
    /\ pc = "split"
    /\ EncodeTo("reencoded")

-----------------------------------------------------------------------------
(* Splitter, lines 151-156.                                                *)

\* heart_data['target']: the column as a series, index labels kept.
Column(df, c) == [i \in DOMAIN df.rows |-> [idx |-> df.rows[i].idx, v |-> df.rows[i].v[c]]]

\* A test size truncated instead of rounded up.
TestCountFloor(n) == n \div 5

\* ceil(test_size * n) for test_size = 0.2 (line 156).  In double precision
\* 0.2 * n is exactly n/5 when 5 divides n, and otherwise lies strictly
\* between the two neighbouring integers, so the ceiling is that of n/5
\* for every n a frame can have.
TestCount(n) == IF n % 5 = 0 THEN n \div 5 ELSE n \div 5 + 1

\* train_size is None: the train partition is the complement.
TrainCount(n) == n - TestCount(n)

\* df.iloc[positions]: the rows at the given positions, in that order.
Take(rows, positions) == [k \in DOMAIN positions |-> rows[positions[k]]]

\* permutation[from:to], positions counted from 1 and to included.
Slice(p, from, to) == [k \in 1..(to - from + 1) |-> p[from + k - 1]]

\* All the orders of the elements of a set.
RECURSIVE Orders(_)
Orders(set) ==
    IF set = {} THEN {<<>>}
    ELSE UNION {{<<x>> \o p : p \in Orders(set \ {x})} : x \in set}

MaxPermRows == 6
Shifts == {0, 1, 59, 150}

\* What RandomState(42).permutation(n) may be: any order of 1..n for a
\* small n, and for a larger n the shifted identity and shifted reversal.
PermutationsOf(n) ==
    IF n <= MaxPermRows THEN Orders(1..n)
    ELSE {[i \in 1..n |-> ((a * (i - 1) + b) % n) + 1] : a \in {1, n - 1}, b \in Shifts}

\* Lines 152-156 on frame df with permutation p: the first n_test positions
\* of the permutation are the test rows and the rest the train rows.
SplitParts(fX, fy, te, tr) ==
    [X |-> fX, y |-> fy,
     X_test |-> Frame(fX.columns, Take(fX.rows, te)),
     X_train |-> Frame(fX.columns, Take(fX.rows, tr)),
     y_test |-> Take(fy, te),
     y_train |-> Take(fy, tr)]
SplitOf(df, p) ==
    CHOOSE parts \in
        {SplitParts(fX, fy, Slice(p, 1, TestCount(Len(df.rows))),
                    Slice(p, TestCount(Len(df.rows)) + 1, Len(df.rows))) :
            fX \in {DropColumns(df, {"target"})}, fy \in {Column(df, "target")}} : TRUE

\* The namespace after line 156 ran on df with permutation p.
BindSplit(df, p) ==
    \E sp \in {SplitOf(df, p)} :
        /\ permutation' = p
        /\ X' = sp.X /\ y' = sp.y
        /\ X_test' = sp.X_test /\ X_train' = sp.X_train
        /\ y_test' = sp.y_test /\ y_train' = sp.y_train

\* train_test_split raises ValueError when the train partition would be
\* empty (a frame of no row or one row).
Split ==
    /\ pc = "split"
    /\ IF TrainCount(Len(heart_data.rows)) = 0
       THEN /\ pc' = "aborted"
            /\ err' = "ValueError"
            /\ X' = DropColumns(heart_data, {"target"})
            /\ y' = Column(heart_data, "target")
            /\ UNCHANGED <<X_train, X_test, y_train, y_test, permutation>>
       ELSE /\ \E p \in PermutationsOf(Len(heart_data.rows)) : BindSplit(heart_data, p)
            /\ pc' = "scale"
            /\ err' = err
    /\ UNCHANGED <<loadVars, scaleVars, evalVars, outVars>>

-----------------------------------------------------------------------------
(* Scaler, lines 158-161.  Statistics are exact: for a column with n       *)
(* values, sum s and sum of squares q, mean_ is <<s, n>>, var_ is          *)
(* <<n*q - s*s, n*n>> and scale_ is kept as its square.  A standardised    *)
(* value <<a, d>> stands for a / sqrt(d).                                  *)

\* check_array: every cell of the frame must convert to a float.
AllFloatable(df) ==
    \A r \in Range(df.rows) : \A c \in Range(df.columns) : Floatable(r.v[c])

\* The values of column c as floats, in row order.
ColumnValues(df, c) == [i \in DOMAIN df.rows |-> ToFloat(df.rows[i].v[c])]

Mean(vals) == <<SumSeq(vals), Len(vals)>>
Variance(vals) ==
    <<Len(vals) * SumSeq([i \in DOMAIN vals |-> vals[i] * vals[i]])
        - SumSeq(vals) * SumSeq(vals),
      Len(vals) * Len(vals)>>

\* A scale left at zero for a constant column.
HandleZerosKeep(var) == var

\* _handle_zeros_in_scale: a constant column gets scale 1 instead of 0.
HandleZeros(var) == IF var[1] = 0 THEN <<1, 1>> ELSE var

\* StandardScaler().fit(df): per column, in column order.
Fit(df) ==
    [n_samples_seen_ |-> Len(df.rows),
     mean_  |-> [k \in DOMAIN df.columns |-> Mean(ColumnValues(df, df.columns[k]))],
     var_   |-> [k \in DOMAIN df.columns |-> Variance(ColumnValues(df, df.columns[k]))],
     scale_ |-> [k \in DOMAIN df.columns |->
                   HandleZeros(Variance(ColumnValues(df, df.columns[k])))]]

\* (x - mean) / scale for mean <<s, n>> and squared scale <<u, w>>:
\* (n*x - s) / sqrt(n*n*u/w).
Standardise(x, mean, scale2) ==
    <<mean[2] * x - mean[1], (mean[2] * mean[2] * scale2[1]) \div scale2[2]>>

\* The matrix of df standardised with the statistics of sc.
Apply(sc, df) ==
    [i \in DOMAIN df.rows |->
        [k \in DOMAIN df.columns |->
            Standardise(ToFloat(df.rows[i].v[df.columns[k]]), sc.mean_[k], sc.scale_[k])]]

\* A transform that fits again on what it is given.
TransformStatsRefit(sc, df) == Fit(df)

\* The statistics scaler.transform applies: the stored ones, whatever the
\* frame it is given.
TransformStats(sc, df) == sc

\* Line 159-160: scaler.fit_transform(X_train).
FitTransform ==
    /\ pc = "scale"
    /\ IF AllFloatable(X_train)
       THEN /\ scaler' = Fit(X_train)
            /\ X_train_scaled' = Apply(Fit(X_train), X_train)
            /\ pc' = "transform"
            /\ err' = err
       ELSE /\ pc' = "aborted"
            /\ err' = "ValueError"
            /\ UNCHANGED <<scaler, X_train_scaled>>
    /\ UNCHANGED <<X_test_scaled, prev_run, loadVars, splitVars, evalVars, outVars>>

\* Line 161: scaler.transform(X_test).
Transform ==
    /\ pc = "transform"
    /\ IF AllFloatable(X_test)
       THEN /\ scaler' = TransformStats(scaler, X_test)
            /\ X_test_scaled' = Apply(TransformStats(scaler, X_test), X_test)
            /\ pc' = "explore"
            /\ err' = err
       ELSE /\ pc' = "aborted"
            /\ err' = "ValueError"
            /\ UNCHANGED <<scaler, X_test_scaled>>
    /\ UNCHANGED <<X_train_scaled, prev_run, loadVars, splitVars, evalVars, outVars>>

-----------------------------------------------------------------------------
(* Exploration, lines 163-231: plots and a correlation matrix; nothing the *)
(* later statements read is bound.                                         *)

Explore ==
    /\ pc = "explore"
    /\ pc' = "lr"
    /\ UNCHANGED <<err, loadVars, splitVars, scaleVars, evalVars, outVars>>

-----------------------------------------------------------------------------
(* Model training and evaluation, lines 233-257.  The three estimators in  *)
(* the order of the source; models (line 292) lists them in that order.    *)

Models == <<"lr", "rf", "svc">>

\* The labels of a target series as numbers, in row order.
LabelsIn(series) == [i \in DOMAIN series |-> ToFloat(series[i].v)]

\* The probability levels an estimator answers, in quarters.
ProbLevels == {1, 3}

\* What the three fitted estimators may answer for k test rows.
Oracles(k) == [Range(Models) -> [1..k -> ProbLevels]]

\* fit raises ValueError on a target of one class for logistic regression
\* and the support-vector classifier; a random forest fits it.
FitRaises(m, labels) == m \in {"lr", "svc"} /\ Cardinality(Range(labels)) < 2

\* predict: the class of probability at least one half; an estimator
\* fitted on one class answers that class.
Predict(m, oracle, trainLabels, k) ==
    [i \in 1..k |->
        IF Cardinality(Range(trainLabels)) = 1 THEN trainLabels[1]
        ELSE IF oracle[m][i] >= 2 THEN 1 ELSE 0]

\* accuracy_score: the matches over the number of rows.
AccuracyScore(true, predicted) ==
    <<Cardinality({i \in DOMAIN true : true[i] = predicted[i]}), Len(true)>>

\* A set of numbers in ascending order.
RECURSIVE SortedNumbers(_)
SortedNumbers(set) ==
    IF set = {} THEN <<>>
    ELSE LET m == CHOOSE x \in set : \A z \in set : x <= z
         IN <<m>> \o SortedNumbers(set \ {m})

\* A matrix over the two classes whatever labels occur (labels=[0, 1]).
MatrixLabelsBoth(true, predicted) == <<0, 1>>

\* confusion_matrix called without labels: the labels that occur in the
\* true or the predicted vector, ascending.
MatrixLabels(true, predicted) == SortedNumbers(Range(true) \cup Range(predicted))

\* confusion_matrix: rows the actual label, columns the predicted one.
ConfusionMatrix(true, predicted) ==
    LET labels == MatrixLabels(true, predicted)
    IN [a \in DOMAIN labels |->
          [b \in DOMAIN labels |->
              Cardinality({i \in DOMAIN true :
                              true[i] = labels[a] /\ predicted[i] = labels[b]})]]

\* classification_report: per occurring label the counts precision, recall
\* and F1 are ratios of (a division by zero is reported as 0 with a warning).
ClassificationReport(true, predicted) ==
    LET labels == SortedNumbers(Range(true) \cup Range(predicted))
    IN [a \in DOMAIN labels |->
          [label |-> labels[a],
           hits |-> Cardinality({i \in DOMAIN true :
                                    true[i] = labels[a] /\ predicted[i] = labels[a]}),
           predicted |-> Cardinality({i \in DOMAIN true : predicted[i] = labels[a]}),
           support |-> Cardinality({i \in DOMAIN true : true[i] = labels[a]})]]

\* A block that assigns its results to the names of the block before it.
ResultSlotSlip(m) == IF m = "rf" THEN "lr" ELSE m

\* The prefix of the names a block assigns: its own (lr_pred, lr_acc, ...).
ResultSlot(m) == m

\* The results bound so far, as one value.
Results == [pred |-> pred, acc |-> acc, cm |-> cm, cr |-> cr]

\* The block of estimator m (fit, predict, score) on results r.
BlockOn(m, r, oracle, trainLabels, testLabels) ==
    LET p == Predict(m, oracle, trainLabels, Len(testLabels))
    IN [pred |-> [r.pred EXCEPT ![ResultSlot(m)] = p],
        acc  |-> [r.acc EXCEPT ![ResultSlot(m)] = AccuracyScore(testLabels, p)],
        cm   |-> [r.cm EXCEPT ![ResultSlot(m)] = ConfusionMatrix(testLabels, p)],
        cr   |-> [r.cr EXCEPT ![ResultSlot(m)] = ClassificationReport(testLabels, p)]]

\* Lines 236-241, 244-249, 252-257: the block of estimator m, left for
\* position next.
TrainEvaluate(m, next) ==
    /\ IF FitRaises(m, LabelsIn(y_train))
       THEN /\ pc' = "aborted"
            /\ err' = "ValueError"
            /\ UNCHANGED <<ran, pred, acc, cm, cr>>
       ELSE /\ pred' = BlockOn(m, Results, clf, LabelsIn(y_train), LabelsIn(y_test)).pred
            /\ acc' = BlockOn(m, Results, clf, LabelsIn(y_train), LabelsIn(y_test)).acc
            /\ cm' = BlockOn(m, Results, clf, LabelsIn(y_train), LabelsIn(y_test)).cm
            /\ cr' = BlockOn(m, Results, clf, LabelsIn(y_train), LabelsIn(y_test)).cr
            /\ ran' = ran \cup {m}
            /\ pc' = next
            /\ err' = err
    /\ UNCHANGED <<clf, auc, loadVars, splitVars, scaleVars, outVars>>

\* The order of the statement groups from line 233 on.
StageAfterRocLast(stage) ==
    CASE stage = "lr" -> "rf" [] stage = "rf" -> "svc" [] stage = "svc" -> "report"
      [] stage = "report" -> "best" [] stage = "best" -> "roc" [] stage = "roc" -> "done"

StageAfter(stage) ==
    CASE stage = "lr" -> "rf" [] stage = "rf" -> "svc" [] stage = "svc" -> "roc"
      [] stage = "roc" -> "report" [] stage = "report" -> "best" [] stage = "best" -> "done"

LogisticRegression ==
    /\ pc = "lr"
    /\ TrainEvaluate("lr", StageAfter("lr"))

RandomForest ==
    /\ pc = "rf"
    /\ TrainEvaluate("rf", StageAfter("rf"))

SupportVector ==
    /\ pc = "svc"
    /\ TrainEvaluate("svc", StageAfter("svc"))

-----------------------------------------------------------------------------
(* ROC curve and AUC, lines 259-289.                                       *)

\* roc_auc_score: over the pairs of a positive and a negative row, the
\* share scored in the right order, a tie counting one half.
RocAucScore(true, scores) ==
    LET pairs == {q \in (DOMAIN true) \X (DOMAIN true) : true[q[1]] = 1 /\ true[q[2]] = 0}
    IN <<2 * Cardinality({q \in pairs : scores[q[1]] > scores[q[2]]})
           + Cardinality({q \in pairs : scores[q[1]] = scores[q[2]]}),
         2 * Cardinality(pairs)>>

\* predict_proba(X_test_scaled)[:, 1] of estimator m.
PredictProba(m, oracle, k) == [i \in 1..k |-> oracle[m][i]]

\* roc_auc_score raises ValueError when the test target has one class.
RocAuc ==
    /\ pc = "roc"
    /\ IF Cardinality(Range(LabelsIn(y_test))) < 2
       THEN /\ pc' = "aborted"
            /\ err' = "ValueError"
            /\ auc' = auc
       ELSE /\ auc' = [m \in Range(Models) |->
                         RocAucScore(LabelsIn(y_test), PredictProba(m, clf, Len(y_test)))]
            /\ pc' = StageAfter("roc")
            /\ err' = err
    /\ UNCHANGED <<clf, ran, pred, acc, cm, cr, loadVars, splitVars, scaleVars, outVars>>

-----------------------------------------------------------------------------
(* Comparison, lines 291-310.                                              *)

accuracies == [i \in DOMAIN Models |-> acc[Models[i]]]
confusion_matrices == [i \in DOMAIN Models |-> cm[Models[i]]]
classification_reports == [i \in DOMAIN Models |-> cr[Models[i]]]

\* a <= b for two ratios <<numerator, denominator>>.
Leq(a, b) == a[1] * b[2] <= b[1] * a[2]
Less(a, b) == a[1] * b[2] < b[1] * a[2]

\* The ratio to four decimals, in units of 0.0001 (ties to even).
Round4(a) ==
    LET q == (10000 * a[1]) \div a[2]
        r == (10000 * a[1]) % a[2]
    IN IF 2 * r > a[2] \/ (2 * r = a[2] /\ q % 2 = 1) THEN q + 1 ELSE q

\* What one pass of the loop of lines 297-304 prints for models[i].
ReportLines(i) ==
    <<[text |-> "Model: ", value |-> <<Models[i]>>],
      [text |-> "Accuracy: ", value |-> <<Round4(accuracies[i])>>],
      [text |-> "Confusion Matrix:", value |-> <<>>],
      [text |-> "", value |-> confusion_matrices[i]],
      [text |-> "Classification Report:", value |-> <<>>],
      [text |-> "", value |-> classification_reports[i]],
      [text |-> "\n", value |-> <<>>]>>

\* The number of passes of the loop made so far.
Reported == Len(stdout) \div Len(ReportLines(1))

\* One pass of the loop of lines 297-304.
Report ==
    /\ pc = "report"
    /\ stdout' = stdout \o ReportLines(Reported + 1)
    /\ pc' = IF Reported + 1 = Len(Models) THEN StageAfter("report") ELSE "report"
    /\ UNCHANGED <<err, best_model_idx, loadVars, splitVars, scaleVars, evalVars>>

\* An argmax that keeps the last of several maxima.
ArgMaxLast(s) ==
    (CHOOSE i \in DOMAIN s :
        /\ \A j \in DOMAIN s : Leq(s[j], s[i])
        /\ \A j \in DOMAIN s : j > i => Less(s[j], s[i])) - 1

\* np.argmax: the position, counted from 0, of the first maximum.
ArgMax(s) ==
    (CHOOSE i \in DOMAIN s :
        /\ \A j \in DOMAIN s : Leq(s[j], s[i])
        /\ \A j \in 1..(i - 1) : Less(s[j], s[i])) - 1

\* Lines 307-310.
SelectBest ==
    /\ pc = "best"
    /\ best_model_idx' = ArgMax(accuracies)
    /\ stdout' = Append(stdout,
                    [text |-> "Best Performing Model: ",
                     value |-> <<Models[ArgMax(accuracies) + 1],
                                 Round4(accuracies[ArgMax(accuracies) + 1])>>])
    /\ pc' = StageAfter("best")
    /\ UNCHANGED <<err, loadVars, splitVars, scaleVars, evalVars>>

-----------------------------------------------------------------------------
(* Loader, line 127, and the inputs it is given.                           *)

\* A complete record of the Cleveland file: floats, with ca and thal read
\* as text because those two columns hold the '?' marker.
BaseRow ==
    [age |-> F(63), sex |-> F(1), cp |-> F(1), trestbps |-> F(145),
     chol |-> F(233), fbs |-> F(1), restecg |-> F(2), thalach |-> F(150),
     exang |-> F(0), oldpeak |-> F(2), slope |-> F(3), ca |-> S("0.0"),
     thal |-> S("6.0"), num |-> F(0)]

OtherRow ==
    [age |-> S("1.0"), sex |-> F(0), cp |-> F(4), trestbps |-> F(120),
     chol |-> F(229), fbs |-> F(0), restecg |-> F(0), thalach |-> F(129),
     exang |-> F(1), oldpeak |-> F(3), slope |-> F(2), ca |-> S("2.0"),
     thal |-> S("7.0"), num |-> F(2)]

MaxRawRows == 3

\* Records for the cleaner: complete ones, ones with the sentinel or a null
\* somewhere, one with an unparseable age.
CleanerRows ==
    {BaseRow, OtherRow}
    \cup {[BaseRow EXCEPT ![c] = m] : c \in {"age", "ca", "thal"}, m \in {Sentinel, NaN}}
    \cup {[OtherRow EXCEPT !["ca"] = Sentinel, !["thal"] = Sentinel],
          [OtherRow EXCEPT !["age"] = S("abc")]}

CleanerInputs == SeqsOf(CleanerRows, 0, MaxRawRows)

\* pd.read_csv(url, names=names) returning the records of one input.
LoadFrom(inputs) ==
    /\ \E records \in inputs :
          /\ loaded' = ReadCsv(records)
          /\ heart_data' = ReadCsv(records)
    /\ pc' = "clean"
    /\ UNCHANGED <<err, splitVars, scaleVars, evalVars, outVars>>

\* pd.read_csv raising because the resource cannot be fetched.
LoadFails ==
    /\ pc = "load"
    /\ pc' = "aborted"
    /\ err' = "URLError"
    /\ UNCHANGED <<loadVars, splitVars, scaleVars, evalVars, outVars>>

-----------------------------------------------------------------------------
(* Initial namespace: nothing bound yet.                                   *)

NoSplit == /\ X = None /\ y = None /\ X_train = None /\ X_test = None
           /\ y_train = None /\ y_test = None /\ permutation = None
NoScale == /\ scaler = None /\ X_train_scaled = None /\ X_test_scaled = None
           /\ prev_run = [bound |-> FALSE]
NoResults == /\ ran = {}
             /\ pred = [m \in Range(Models) |-> None]
             /\ acc = [m \in Range(Models) |-> None]
             /\ cm = [m \in Range(Models) |-> None]
             /\ cr = [m \in Range(Models) |-> None]
             /\ auc = [m \in Range(Models) |-> None]
NoOutput == stdout = <<>> /\ best_model_idx = None

InitAtLoad ==
    /\ pc = "load" /\ err = "none"
    /\ loaded = None /\ heart_data = None
    /\ NoSplit /\ NoScale /\ clf = None /\ NoResults /\ NoOutput

-----------------------------------------------------------------------------
(* The cleaner on its own: load, clean, coerce.                            *)

LoadForCleaner ==
    /\ pc = "load"
    /\ LoadFrom(CleanerInputs)
NextClean == LoadForCleaner \/ LoadFails \/ Clean \/ Coerce
SpecClean == InitAtLoad /\ [][NextClean]_vars

\* Record r of the loaded file has neither the sentinel nor a null.
Complete(r) == \A c \in DOMAIN r.v : r.v[c] # Sentinel /\ ~IsNull(r.v[c])

\* C5: once the cleaner has run, the frame holds no null and no '?' marker
\* in any column, and its rows are exactly the loaded rows that had neither,
\* in their original order, index label and values unchanged.
C5_CleanerKeepsExactlyCompleteRows ==
    pc = "coerce" =>
        /\ \A r \in Range(heart_data.rows) : Complete(r)
        /\ heart_data.rows =
              Filter(loaded.rows, {r \in Range(loaded.rows) : Complete(r)})
        /\ heart_data.columns = loaded.columns

\* A cleaned frame that lost a sentinel row and a null row and kept a row.
C5_Witness ==
    /\ pc = "coerce"
    /\ Len(heart_data.rows) = 1
    /\ Len(loaded.rows) = 3
    /\ \E r \in Range(loaded.rows) : \E c \in DOMAIN r.v : r.v[c] = Sentinel
    /\ \E r \in Range(loaded.rows) : \E c \in DOMAIN r.v : IsNull(r.v[c])

-----------------------------------------------------------------------------
(* The encoder on its own: load, clean, coerce, encode, and the encoding   *)
(* statements executed a second time on their own output.                 *)

EncoderRows ==
    {BaseRow, OtherRow,
     [BaseRow EXCEPT !["cp"] = F(2), !["thal"] = S("3.0"), !["num"] = F(1)],
     [BaseRow EXCEPT !["cp"] = F(3), !["restecg"] = F(1), !["slope"] = F(1)],
     [OtherRow EXCEPT !["ca"] = Sentinel]}

EncoderInputs == SeqsOf(EncoderRows, 0, MaxRawRows)

LoadForEncoder ==
    /\ pc = "load"
    /\ LoadFrom(EncoderInputs)
NextEncode == LoadForEncoder \/ LoadFails \/ Clean \/ Coerce \/ Encode \/ ReEncode
SpecEncode == InitAtLoad /\ [][NextEncode]_vars

\* The cleaned, coerced frame the encoder was given.
EncoderInput == Eager(AsTypeFloat, Eager(DropNa, Replace(loaded)))

\* The labels that are neither a categorical source column nor num.
Kept == Filter(names, Range(names) \ (Range(categorical) \cup {"num"}))

LabelsOf(c, levels) == [k \in DOMAIN levels |-> DummyName(c, levels[k])]

\* s without its element x.
Without(s, x) == Filter(s, Range(s) \ {x})

\* The indicator blocks the claim allows for column c: the distinct values
\* in order of first appearance, one of them left out as the reference.
FirstSeenBlocks(c) ==
    IF Levels(EncoderInput, c) = {} THEN {<<>>}
    ELSE {LabelsOf(c, Without(FirstSeen(EncoderInput, c), x)) :
             x \in Levels(EncoderInput, c)}

\* C6 as stated: the encoded frame's columns are the kept columns, then
\* per source column (cp, restecg, slope, thal) the indicators of its
\* distinct values but one, in order of first appearance (the derived
\* target column set aside).
C6_IndicatorsInFirstAppearanceOrder ==
    pc = "split" =>
        \E b1 \in FirstSeenBlocks("cp"), b2 \in FirstSeenBlocks("restecg"),
           b3 \in FirstSeenBlocks("slope"), b4 \in FirstSeenBlocks("thal") :
            Without(heart_data.columns, "target") = Kept \o b1 \o b2 \o b3 \o b4

\* The indicators of c in ascending order of value, the smallest left out.
AscendingBlock(c) ==
    LET asc == Ascending(Levels(EncoderInput, c))
    IN LabelsOf(c, IF asc = <<>> THEN <<>> ELSE Tail(asc))

\* C6 amended: the encoded frame's columns are the kept columns, then per
\* source column (cp, restecg, slope, thal) one indicator per distinct
\* value except the smallest, in ascending order of value, then target;
\* the four source columns and num are absent.
C6_IndicatorsInAscendingOrder ==
    pc = "split" =>
        /\ heart_data.columns =
              Kept \o AscendingBlock("cp") \o AscendingBlock("restecg")
                   \o AscendingBlock("slope") \o AscendingBlock("thal")
                   \o <<"target">>
        /\ \A r \in Range(heart_data.rows) :
              DOMAIN r.v = Range(heart_data.columns)
        /\ Range(heart_data.columns) \cap (Range(categorical) \cup {"num"}) = {}

\* An encoded frame whose cp values first appear as 4, 1, 2.
C6_Witness ==
    /\ pc = "split"
    /\ FirstSeen(EncoderInput, "cp") = <<F(4), F(1), F(2)>>
    /\ AscendingBlock("cp") = <<"cp_2.0", "cp_4.0">>

\* C7 as stated: the encoding statements, run on an already-encoded frame,
\* complete without error and leave the frame unchanged.
C7_ReEncodeIsNoOp ==
    [][ReEncode => (err' = "none" /\ heart_data' = heart_data)]_vars

\* C7 amended: the encoding statements, run on an already-encoded frame,
\* abort with KeyError at the first source-column lookup and leave the
\* frame unchanged.
C7_ReEncodeRaisesKeyError ==
    [][ReEncode => (/\ err' = "KeyError"
                    /\ pc' = "aborted"
                    /\ heart_data' = heart_data)]_vars

\* A run aborted by the second execution of the encoding statements.
C7_Witness ==
    /\ pc = "aborted"
    /\ err = "KeyError"
    /\ "target" \in Range(heart_data.columns)
    /\ Len(heart_data.rows) = 3

-----------------------------------------------------------------------------
(* The splitter on its own: frames of 0..MaxSplitRows clean rows and one   *)
(* of ScenarioRows rows, loaded, cleaned, coerced, encoded and split.      *)

MaxSplitRows == 6
ScenarioRows == 300

\* n complete records, told apart by age, every third one healthy.
CleanRecords(n) ==
    [i \in 1..n |-> [BaseRow EXCEPT !["age"] = F(i), !["num"] = F(i % 3),
                                    !["cp"] = F(1 + (i % 4))]]

SplitterInputs == {CleanRecords(n) : n \in (0..MaxSplitRows) \cup {ScenarioRows}}

LoadForSplitter ==
    /\ pc = "load"
    /\ LoadFrom(SplitterInputs)
NextSplit == LoadForSplitter \/ LoadFails \/ Clean \/ Coerce \/ Encode \/ Split
SpecSplit == InitAtLoad /\ [][NextSplit]_vars

Labels(rows) == {r.idx : r \in Range(rows)}

\* C8: once the split is made, every row of the feature matrix is in
\* exactly one of train and test, each feature row is paired with the
\* target of the same row, the test partition holds 20% of the rows
\* (rounded up to a whole row), and 300 rows give 240 train / 60 test.
C8_SplitIsPartitionWithFifthInTest ==
    pc = "scale" =>
        LET n == Len(X.rows)
        IN /\ Labels(X_train.rows) \cup Labels(X_test.rows) = Labels(X.rows)
           /\ Labels(X_train.rows) \cap Labels(X_test.rows) = {}
           /\ Len(X_train.rows) + Len(X_test.rows) = n
           /\ Range(X_train.rows) \cup Range(X_test.rows) = Range(X.rows)
           /\ Len(y_train) = Len(X_train.rows) /\ Len(y_test) = Len(X_test.rows)
           /\ \A i \in DOMAIN y_train :
                 /\ y_train[i].idx = X_train.rows[i].idx
                 /\ y_train[i] \in Range(y)
           /\ \A i \in DOMAIN y_test :
                 /\ y_test[i].idx = X_test.rows[i].idx
                 /\ y_test[i] \in Range(y)
           /\ 5 * Len(X_test.rows) >= n /\ 5 * (Len(X_test.rows) - 1) < n
           /\ (n = 300 => Len(X_train.rows) = 240 /\ Len(X_test.rows) = 60)

\* The 300-row frame split 240 / 60 by a permutation other than identity.
C8_Witness ==
    /\ pc = "scale"
    /\ Len(X.rows) = 300
    /\ Len(X_train.rows) = 240 /\ Len(X_test.rows) = 60
    /\ permutation[1] = 60 /\ permutation[2] = 59

\* A six-row frame split 4 / 2.
C8_WitnessSmall ==
    /\ pc = "scale"
    /\ Len(X.rows) = 6
    /\ Len(X_test.rows) = 2
    /\ permutation = <<3, 1, 6, 2, 5, 4>>

-----------------------------------------------------------------------------
(* The scaler on its own: the namespace as line 156 leaves it for a small  *)
(* input, scaled, and then the same statements executed once more on       *)
(* another input of the same size (same seed, hence same permutation).     *)

MaxScaleRows == 3

ScalerRows ==
    <<BaseRow,
      [OtherRow EXCEPT !["age"] = F(60)],
      [BaseRow EXCEPT !["chol"] = F(250), !["cp"] = F(4), !["num"] = F(1)]>>

\* The inputs up to the order of their records, which the permutation of
\* line 156 varies: records of the first kind, then the second, the third.
ScalerInputs ==
    {[i \in DOMAIN s |-> ScalerRows[s[i]]] :
        s \in {t \in SeqsOf(DOMAIN ScalerRows, 2, MaxScaleRows) :
                  \A i \in 1..(Len(t) - 1) : t[i] <= t[i + 1]}}

\* The frame lines 127-149 make of the records.
EncodedFrame(df) == EncodeRun(df).df
Prepared(records) ==
    Eager(EncodedFrame,
          Eager(AsTypeFloat, Eager(DropNa, Eager(Replace, ReadCsv(records)))))

\* The namespace after line 156 for the records, split by permutation p.
AfterSplit(records, df, sp, p) ==
    /\ loaded = ReadCsv(records)
    /\ heart_data = df
    /\ permutation = p
    /\ X = sp.X /\ y = sp.y
    /\ X_test = sp.X_test /\ X_train = sp.X_train
    /\ y_test = sp.y_test /\ y_train = sp.y_train

InitAtScale ==
    /\ pc = "scale" /\ err = "none"
    /\ \E records \in ScalerInputs : \E df \in {Prepared(records)} :
          \E p \in PermutationsOf(Len(records)) : \E sp \in {SplitOf(df, p)} :
             AfterSplit(records, df, sp, p)
    /\ NoScale /\ clf = None /\ NoResults /\ NoOutput

\* Lines 127-156 executed again on other records of the same number, the
\* outputs of the scaler kept aside for comparison.
Rerun ==
    /\ pc = "explore"
    /\ ~prev_run.bound
    /\ prev_run' = [bound |-> TRUE, X_train |-> X_train, X_test |-> X_test,
                    scaler |-> scaler, X_train_scaled |-> X_train_scaled,
                    X_test_scaled |-> X_test_scaled]
    /\ \E records \in ScalerInputs : \E df \in {Prepared(records)} :
          /\ Len(records) = Len(permutation)
          /\ loaded' = ReadCsv(records)
          /\ heart_data' = df
          /\ BindSplit(df, permutation)
    /\ scaler' = None /\ X_train_scaled' = None /\ X_test_scaled' = None
    /\ pc' = "scale"
    /\ UNCHANGED <<err, evalVars, outVars>>

NextScale == FitTransform \/ Transform \/ Rerun
SpecScale == InitAtScale /\ [][NextScale]_vars

\* Sum, sum of squares and n * sumsq - sum^2 of column k of the train rows.
TrainN == Len(X_train.rows)
TrainSum(k) == SumSeq(ColumnValues(X_train, X_train.columns[k]))
TrainSumSq(k) ==
    SumSeq([i \in DOMAIN X_train.rows |->
               ToFloat(X_train.rows[i].v[X_train.columns[k]])
               * ToFloat(X_train.rows[i].v[X_train.columns[k]])])
TrainSpread(k) == TrainN * TrainSumSq(k) - TrainSum(k) * TrainSum(k)

\* C3: the fitted statistics are those of the train rows alone; the test
\* rows are standardised with them, the scaler left as fitted; and two
\* executions with the same train partition have the same statistics and
\* the same scaled train features, whatever their test partitions.
C3_ScalerReadsTrainOnly ==
    pc = "explore" =>
        /\ scaler.n_samples_seen_ = TrainN
        /\ \A k \in DOMAIN X_train.columns :
              /\ scaler.mean_[k] = <<TrainSum(k), TrainN>>
              /\ scaler.var_[k] = <<TrainSpread(k), TrainN * TrainN>>
        /\ \A i \in DOMAIN X_test.rows : \A k \in DOMAIN X_test.columns :
              X_test_scaled[i][k] =
                 <<TrainN * ToFloat(X_test.rows[i].v[X_test.columns[k]]) - TrainSum(k),
                   IF TrainSpread(k) = 0 THEN TrainN * TrainN ELSE TrainSpread(k)>>
        /\ (prev_run.bound /\ prev_run.X_train = X_train) =>
              /\ scaler = prev_run.scaler
              /\ X_train_scaled = prev_run.X_train_scaled

\* Two executions with the same two train rows (not constant in chol) and
\* different test rows.
C3_Witness ==
    /\ pc = "explore"
    /\ prev_run.bound
    /\ prev_run.X_train = X_train
    /\ prev_run.X_test # X_test
    /\ prev_run.X_test_scaled # X_test_scaled
    /\ TrainN = 2
    /\ \E k \in DOMAIN X_train.columns : TrainSpread(k) > 0

\* Some feature column is constant over the train rows.
ZeroStdColumns == {k \in DOMAIN X_train.columns : TrainSpread(k) = 0}

\* C4 as stated: with a feature column of zero standard deviation over the
\* train rows, the scaler stage fails and the run aborts, with no scaled
\* features produced.
C4_ZeroStdAborts ==
    (pc # "scale" /\ ZeroStdColumns # {}) =>
        /\ pc = "aborted"
        /\ err = "ValueError"

\* C4 amended: with a feature column of zero standard deviation over the
\* train rows, the scaler stage does not fail: it divides that column by 1
\* instead of the standard deviation, so every train value of the column
\* is scaled to 0 and a test value x to x - mean, and the run goes on.
C4_ZeroStdDividesByOne ==
    (pc \in {"transform", "explore"} /\ AllFloatable(X_train)) =>
        /\ err = "none"
        /\ \A k \in ZeroStdColumns :
              /\ scaler.var_[k][1] = 0
              /\ scaler.scale_[k] = <<1, 1>>
              /\ \A i \in DOMAIN X_train_scaled :
                    X_train_scaled[i][k] = <<0, TrainN * TrainN>>
        /\ pc = "explore" =>
              \A k \in ZeroStdColumns : \A i \in DOMAIN X_test_scaled :
                  X_test_scaled[i][k] =
                     <<TrainN * ToFloat(X_test.rows[i].v[X_test.columns[k]])
                          - TrainSum(k), TrainN * TrainN>>

\* A scaled run whose chol column is constant over the two train rows and
\* whose test row differs from them in chol.
C4_Witness ==
    /\ pc = "explore"
    /\ TrainN = 2
    /\ \E k \in ZeroStdColumns :
          /\ X_train.columns[k] = "chol"
          /\ X_test_scaled[1][k][1] # 0

-----------------------------------------------------------------------------
(* Training, evaluation and comparison on their own: the namespace as line *)
(* 161 leaves it for inputs of 1..MaxTestRows test rows, every test target *)
(* vector, and a train target of one class or of two.                      *)

MaxTestRows == 2

\* The smallest frame with k test rows and at least two train rows.
EvalSize(k) == 5 * k - 2

\* Records whose first k rows (the test rows under the identity
\* permutation) have the given labels, the rest being all healthy, all
\* diseased or alternating.
EvalRecords(testLabels, trainKind) ==
    [i \in 1..EvalSize(Len(testLabels)) |->
        [BaseRow EXCEPT
            !["age"] = F(40 + i),
            !["chol"] = F(200 + 3 * i * i),
            !["cp"] = F(1 + (i % 4)),
            !["num"] = IF i <= Len(testLabels) THEN F(2 * testLabels[i])
                       ELSE IF trainKind = "healthy" THEN F(0)
                       ELSE IF trainKind = "diseased" THEN F(3)
                       ELSE F(i % 2)]]

EvalInputs ==
    {EvalRecords(t, kind) : t \in SeqsOf({0, 1}, 1, MaxTestRows),
                            kind \in {"healthy", "diseased", "mixed"}}

Identity(n) == [i \in 1..n |-> i]

\* The namespace after line 161 for the records, split by permutation p.
AfterScaling(records, df, sp, p, sc) ==
    /\ AfterSplit(records, df, sp, p)
    /\ scaler = sc
    /\ X_train_scaled = Apply(sc, sp.X_train)
    /\ X_test_scaled = Apply(sc, sp.X_test)
    /\ prev_run = [bound |-> FALSE]

InitAtTrain(at) ==
    /\ pc = at /\ err = "none"
    /\ \E records \in EvalInputs : \E df \in {Prepared(records)} :
          \E sp \in {SplitOf(df, Identity(Len(records)))} : \E sc \in {Fit(sp.X_train)} :
             /\ AfterScaling(records, df, sp, Identity(Len(records)), sc)
             /\ clf \in Oracles(Len(sp.y_test))
    /\ NoResults /\ NoOutput

InitEval == InitAtTrain("lr")
NextEval ==
    LogisticRegression \/ RandomForest \/ SupportVector \/ RocAuc \/ Report \/ SelectBest
SpecEval == InitEval /\ [][NextEval]_vars

\* C1: the model reported as best has the maximal accuracy of the three,
\* and is the earliest such model in the order logistic regression, random
\* forest, support-vector classifier.
C1_BestIsFirstMaximum ==
    pc = "done" =>
        /\ best_model_idx \in 0..2
        /\ \A j \in DOMAIN Models :
              /\ Leq(acc[Models[j]], acc[Models[best_model_idx + 1]])
              /\ j < best_model_idx + 1 =>
                    Less(acc[Models[j]], acc[Models[best_model_idx + 1]])
        /\ stdout[Len(stdout)].text = "Best Performing Model: "
        /\ stdout[Len(stdout)].value[1] = Models[best_model_idx + 1]

\* Random forest and support-vector classifier tie above logistic
\* regression: random forest is reported.
C1_Witness ==
    /\ pc = "done"
    /\ best_model_idx = 1
    /\ acc["rf"] = acc["svc"]
    /\ Less(acc["lr"], acc["rf"])

\* All three tie: logistic regression is reported.
C1_WitnessAllTie ==
    /\ pc = "done"
    /\ best_model_idx = 0
    /\ acc["lr"] = acc["rf"] /\ acc["rf"] = acc["svc"]

\* The sum of all entries of a matrix.
Total(matrix) == SumSeq([a \in DOMAIN matrix |-> SumSeq(matrix[a])])

IsSquare(matrix, k) == Len(matrix) = k /\ \A a \in DOMAIN matrix : Len(matrix[a]) = k

\* C9 as stated: every confusion matrix computed is 2x2 and its entries
\* sum to the number of test rows, also when the test labels and the
\* predictions fall in one class.
C9_MatrixIsTwoByTwo ==
    \A m \in ran :
        /\ IsSquare(cm[m], 2)
        /\ Total(cm[m]) = Len(y_test)

\* C9 amended: every confusion matrix computed is square with one row and
\* one column per label that occurs among the test labels or the
\* predictions (2x2 when both classes occur, 1x1 when all fall in one
\* class), rows the actual and columns the predicted label in ascending
\* order, and its entries sum to the number of test rows.
C9_MatrixOverOccurringLabels ==
    \A m \in ran :
        LET occurring == Range(LabelsIn(y_test)) \cup Range(pred[m])
        IN /\ IsSquare(cm[m], Cardinality(occurring))
           /\ Total(cm[m]) = Len(y_test)
           /\ occurring = {0, 1} =>
                 \A a \in 1..2 : \A b \in 1..2 :
                    cm[m][a][b] = Cardinality({i \in DOMAIN y_test :
                                      ToFloat(y_test[i].v) = a - 1 /\ pred[m][i] = b - 1})
           /\ Cardinality(occurring) = 1 => cm[m] = <<<<Len(y_test)>>>>

\* Two test rows of one class, both predicted in that class by logistic
\* regression: a 1x1 matrix.
C9_Witness ==
    /\ "lr" \in ran
    /\ Len(y_test) = 2
    /\ cm["lr"] = <<<<2>>>>

\* A 2x2 matrix with an entry in each row.
C9_WitnessBoth ==
    /\ "svc" \in ran
    /\ Len(y_test) = 2
    /\ cm["svc"] = <<<<0, 1>>, <<1, 0>>>>

-----------------------------------------------------------------------------
(* The three train-and-evaluate blocks in any order, the comparison after  *)
(* all three.                                                              *)

\* Block m run whatever blocks ran before it; the ROC cell follows the
\* last of the three.
BlockInAnyOrder(m) ==
    TrainEvaluate(m, IF ran \cup {m} = Range(Models) THEN "roc" ELSE "train")

LogisticRegressionAnyTime ==
    /\ pc = "train"
    /\ "lr" \notin ran
    /\ BlockInAnyOrder("lr")

RandomForestAnyTime ==
    /\ pc = "train"
    /\ "rf" \notin ran
    /\ BlockInAnyOrder("rf")

SupportVectorAnyTime ==
    /\ pc = "train"
    /\ "svc" \notin ran
    /\ BlockInAnyOrder("svc")

InitPar == InitAtTrain("train")
NextPar ==
    \/ LogisticRegressionAnyTime \/ RandomForestAnyTime \/ SupportVectorAnyTime
    \/ RocAuc \/ Report \/ SelectBest
SpecPar == InitPar /\ [][NextPar]_vars

\* The results of the blocks run in the order of the source.
Unbound == [m \in Range(Models) |-> None]
Sequential ==
    LET r0 == [pred |-> Unbound, acc |-> Unbound, cm |-> Unbound, cr |-> Unbound]
        r1 == BlockOn("lr", r0, clf, LabelsIn(y_train), LabelsIn(y_test))
        r2 == BlockOn("rf", r1, clf, LabelsIn(y_train), LabelsIn(y_test))
    IN BlockOn("svc", r2, clf, LabelsIn(y_train), LabelsIn(y_test))

SequentialAccuracies == [i \in DOMAIN Models |-> Sequential.acc[Models[i]]]

\* A step that runs the block of estimator m.
Ran(m) == m \notin ran /\ m \in ran'

-----------------------------------------------------------------------------
(* The whole notebook, line 127 to line 310, on inputs that end in each of *)
(* the ways a run can end.                                                 *)

PipelineRows == 8

\* Complete records, the diseased ones at positions 3, 4 and 7.
PipelineRecords ==
    [i \in 1..PipelineRows |->
        [BaseRow EXCEPT
            !["age"] = F(40 + i),
            !["chol"] = F(200 + 3 * i * i),
            !["cp"] = F(1 + (i % 4)),
            !["num"] = IF i \in {3, 4, 7} THEN F(2) ELSE F(0)]]

\* The records as they are, followed by a record with the '?' marker, with
\* an unparseable age, with an unparseable ca, with a severity read as
\* text, all healthy, and cut down to a single record.
PipelineInputs ==
    {PipelineRecords,
     Append(PipelineRecords, [OtherRow EXCEPT !["ca"] = Sentinel]),
     [PipelineRecords EXCEPT ![2]["age"] = S("abc")],
     [PipelineRecords EXCEPT ![2]["ca"] = S("abc")],
     [PipelineRecords EXCEPT ![2]["num"] = S("x")],
     [i \in 1..PipelineRows |-> [PipelineRecords[i] EXCEPT !["num"] = F(0)]],
     <<PipelineRecords[1]>>}

LoadForPipeline ==
    /\ pc = "load"
    /\ LoadFrom(PipelineInputs)

\* Nothing bound but the answers the estimators will give once fitted.
Init ==
    /\ pc = "load" /\ err = "none"
    /\ loaded = None /\ heart_data = None
    /\ NoSplit /\ NoScale /\ NoResults /\ NoOutput
    /\ clf \in Oracles(TestCount(PipelineRows))

Next ==
    \/ LoadForPipeline \/ LoadFails
    \/ Clean \/ Coerce \/ Encode \/ Split
    \/ FitTransform \/ Transform \/ Explore
    \/ LogisticRegression \/ RandomForest \/ SupportVector
    \/ RocAuc \/ Report \/ SelectBest

Spec == Init /\ [][Next]_vars

\* The print calls of a complete run: the seven of the loop for each model
\* and the line of the best model.
FullOutput ==
    /\ Len(stdout) = Len(Models) * Len(ReportLines(1)) + 1
    /\ \A i \in DOMAIN Models :
          /\ stdout[(i - 1) * Len(ReportLines(1)) + 1] =
                [text |-> "Model: ", value |-> <<Models[i]>>]
          /\ stdout[(i - 1) * Len(ReportLines(1)) + 2].text = "Accuracy: "
          /\ stdout[(i - 1) * Len(ReportLines(1)) + 4].value = cm[Models[i]]
          /\ stdout[(i - 1) * Len(ReportLines(1)) + 6].value = cr[Models[i]]
    /\ stdout[Len(stdout)].text = "Best Performing Model: "

\* C2: a run that has raised has printed nothing, a run that has printed
\* something has raised nothing and is in the print loop, at the selection
\* of the best model or finished, and a finished run has printed the three
\* per-model blocks and the best-model line.  Figures shown by plt.show()
\* are not printed text.
C2_NoPartialFailure ==
    /\ pc = "aborted" => err # "none" /\ stdout = <<>>
    /\ stdout # <<>> => err = "none" /\ pc \in {"report", "best", "done"}
    /\ pc \in {"report", "best", "done"} => ran = Range(Models)
    /\ pc = "done" => FullOutput

\* A run that raises as late as it can, at roc_auc_score after the three
\* blocks have run, with nothing printed.
C2_Witness ==
    /\ pc = "aborted"
    /\ ran = Range(Models)
    /\ stdout = <<>>

\* A finished run with everything printed.
C2_WitnessDone ==
    /\ pc = "done"
    /\ FullOutput

=============================================================================
